---- MODULE Spec2Model ----
(***************************************************************************)
(* Colon-link credential autofill extension.                               *)
(*                                                                         *)
(* The repository holds two script sets:                                   *)
(*   "part_000" : src/unnamed/part_000, a service worker (lines 1-173)     *)
(*                and a content script (lines 175-529) with the anti-loop  *)
(*                gate, the failure detector and the origin cooldown;      *)
(*   "pro"      : src/background.js + src/content.js (+ src/popup.js).     *)
(* The variable build says which of the two is installed.  The coordinator *)
(* (service worker) keeps the vault credsByTab and, in part_000, the       *)
(* cooldown map failUntilByOrigin.  The page context of one destination    *)
(* tab, Dest, is modelled in full: its flow state, its interval timer, its *)
(* mutation observer and the page it scans.                                *)
(***************************************************************************)
EXTENDS Integers, Sequences, FiniteSets, TLC

VARIABLES
    build,              \* which script set is installed
    credsByTab,         \* coordinator: the vault, tab id -> entry or NoCreds
    failUntilByOrigin,  \* coordinator (part_000): origin -> cooldownUntil, 0 if absent
    now,                \* Date.now(), in milliseconds
    tabUrl,             \* the browser: tab id -> address of the open tab, or Closed
    pendingCreate,      \* chrome.tabs.create callbacks that have not run yet
    queue,              \* runtime messages sent to the coordinator, not yet handled
    cs,                 \* the page context (content script) of tab Dest
    anti,               \* part_000 content script: the anti-loop record
    reply,              \* tab id -> the latest sendResponse to its requestCreds
    page,               \* the page Dest shows: its roots and its text
    clicks,             \* automatic submit clicks in the current page context
    last,               \* what the latest trigger of the page context did
    failedAt,           \* history: origin -> time of the latest failure marked, -1 if none
    coolOpened,         \* history: the tabs an arming request opened under an active cooldown
    succeededAt,        \* history: the page load whose flow completed its autofill, 0 if none
    submits,            \* history: automatic submit clicks in Dest since it was armed (up to MaxSubmits)
    input,              \* the argument handed to a function of the scripts
    output              \* what the function returned for it

vars == <<build, credsByTab, failUntilByOrigin, now, tabUrl, pendingCreate,
          queue, reply, cs, anti, page, clicks, last, failedAt, coolOpened, succeededAt,
          submits, input, output>>

-----------------------------------------------------------------------------
(* Bounds of the model *)

\* page loads of the destination tab (the first load and the navigations)
MaxLoads == 2
\* automatic submit clicks counted in one page context
MaxClicks == 2
\* messages waiting at the coordinator when the destination tab navigates
MaxQueue == 2
\* messages of the other tabs waiting at the coordinator
MaxOtherQueue == 1
\* steps of the clock, each of about one cooldown window
MaxClockSteps == 2
\* automatic submit clicks counted since the arming (a larger total is counted as this)
MaxSubmits == 3

(* Program constants.  The attempt ceilings and the observer windows are   *)
(* counted in poll ticks and scaled down together: the code's values are   *)
(* 400 and 1000 ticks (part_000), 400 and 500 ticks (content.js), and      *)
(* 15000 ms and 20000 ms of observer lifetime, i.e. 18 and 25 ticks of     *)
(* SCAN_MS = 800 ms.  The scaling keeps every window shorter than every    *)
(* ceiling, as in the code.                                                *)
SUBMIT_COOLDOWN_MS == 600000
MAX_SUBMITS_PER_TAB == 1
AUTO_SUBMIT_DEFAULT == FALSE

\* attempt ceilings, in poll ticks (code: 400, 1000, 400, 500)
NormalMax == 3
TwoStepMax == 4
ProNormalMax == 3
ProTwoStepMax == 4
\* observer lifetime, in whole poll ticks (code: 15000 ms and 20000 ms of 800 ms)
NormalObserverTicks == 1
TwoStepObserverTicks == 2

-----------------------------------------------------------------------------
(* The data of the model *)

Builds == {"part_000", "pro"}

Tabs == {1, 2, 3}
\* the destination tab whose page context is modelled: the first id handed out
Dest == CHOOSE t \in Tabs : \A t2 \in Tabs : t <= t2

NoCreds == [none |-> TRUE]
NoReply == [pending |-> TRUE]
\* a tab id the browser has not handed out yet, and a tab that was closed
Unused == "unused"
Closed == "closed"

\* absolute addresses and their origins
Urls == {"https://a.test/login", "https://a.test/home", "https://b.test/login"}

\* new URL(urlStr).origin
originOf(urlStr) ==
    CASE urlStr = "https://a.test/login" -> "https://a.test"
      [] urlStr = "https://a.test/home" -> "https://a.test"
      [] urlStr = "https://b.test/login" -> "https://b.test"
      [] OTHER -> ""

Origins == {originOf(x) : x \in Urls}

\* parsed colon-links offered to the arming requests: {url, u, p}
Links ==
    { [url |-> "https://a.test/login", u |-> "alice", p |-> "s3cr3t"],
      [url |-> "https://b.test/login", u |-> "bob", p |-> ""] }

(* An input element, by the attributes the scorers read.  The *User and    *)
(* *Pass fields say whether the attribute text contains a term of          *)
(* USER_TERMS or PASS_TERMS; form is the id of the owning form, 0 if none. *)
UserEl ==
    [type |-> "text", nameIdUser |-> TRUE, placeholderUser |-> FALSE, ariaUser |-> FALSE,
     nameIdPass |-> FALSE, placeholderPass |-> FALSE, ariaPass |-> FALSE,
     ac |-> "username", form |-> 1]
PassEl ==
    [type |-> "password", nameIdUser |-> FALSE, placeholderUser |-> FALSE, ariaUser |-> FALSE,
     nameIdPass |-> TRUE, placeholderPass |-> FALSE, ariaPass |-> FALSE,
     ac |-> "current-password", form |-> 1]
EmailEl ==
    [type |-> "email", nameIdUser |-> FALSE, placeholderUser |-> TRUE, ariaUser |-> FALSE,
     nameIdPass |-> FALSE, placeholderPass |-> FALSE, ariaPass |-> FALSE,
     ac |-> "", form |-> 2]

\* a root: its inputs in document order, and whether a submit control is found near them
EmptyRoot == [inputs |-> <<>>, submit |-> FALSE]

\* the pages of the model: each a sequence of roots (main document first)
NoFieldsPage == <<EmptyRoot>>
BothPage == <<[inputs |-> <<UserEl, PassEl>>, submit |-> TRUE]>>
UserOnlyPage == <<[inputs |-> <<UserEl>>, submit |-> TRUE]>>
PassOnlyPage == <<[inputs |-> <<PassEl>>, submit |-> TRUE]>>
ShadowPage == <<EmptyRoot, [inputs |-> <<EmailEl, PassEl>>, submit |-> FALSE]>>

PageRoots == {NoFieldsPage, BothPage, UserOnlyPage, PassOnlyPage, ShadowPage}

\* a page: its roots and whether its text holds a term of FAILURE_TERMS
Pages == [roots : PageRoots, failText : BOOLEAN]

-----------------------------------------------------------------------------
(* FieldScorer *)

Max(a, b) == IF a >= b THEN a ELSE b

\* part_000 findBestInputs, first loop: the username score of an element
userScoreOf(el) ==
    (IF el.type = "" \/ el.type = "text" \/ el.type = "email" THEN 2 ELSE 0)
    + (IF el.nameIdUser \/ el.placeholderUser \/ el.ariaUser THEN 6 ELSE 0)
    + (IF el.ac = "username" \/ el.ac = "email" THEN 6 ELSE 0)
    + (IF el.type = "email" THEN 3 ELSE 0)

\* part_000 findBestInputs, second loop: the password score of an element
passScoreOf(el) ==
    (IF el.type = "password" THEN 8 ELSE 0)
    + (IF el.nameIdPass \/ el.placeholderPass \/ el.ariaPass THEN 6 ELSE 0)
    + (IF el.ac = "current-password" \/ el.ac = "new-password" THEN 6 ELSE 0)

\* content.js scoreUsernameInput
scoreUsernameInput(el) ==
    (IF el.type = "email" \/ el.type = "text" \/ el.type = "" THEN 2 ELSE 0)
    + (IF el.nameIdUser THEN 6 ELSE 0)
    + (IF el.placeholderUser THEN 4 ELSE 0)
    + (IF el.ariaUser THEN 4 ELSE 0)
    + (IF el.ac = "username" \/ el.ac = "email" THEN 6 ELSE 0)
    + (IF el.type = "email" THEN 3 ELSE 0)

\* content.js scorePasswordInput
scorePasswordInput(el) ==
    (IF el.type = "password" THEN 8 ELSE 0)
    + (IF el.nameIdPass THEN 5 ELSE 0)
    + (IF el.placeholderPass THEN 4 ELSE 0)
    + (IF el.ariaPass THEN 4 ELSE 0)
    + (IF el.ac = "current-password" \/ el.ac = "new-password" THEN 6 ELSE 0)

\* a scan that replaces the best on s >= best: the last of equals wins
RECURSIVE scanBestLast(_, _, _, _)
scanBestLast(scores, i, bestIdx, bestScore) ==
    IF i > Len(scores) THEN [idx |-> bestIdx, score |-> bestScore]
    ELSE IF scores[i] >= bestScore
         THEN scanBestLast(scores, i + 1, i, scores[i])
         ELSE scanBestLast(scores, i + 1, bestIdx, bestScore)

(* The scan "if (s > best) { best = s; bestEl = el }" over a sequence of   *)
(* scores, from index i with the running best: the index of the winner,    *)
(* 0 for null.  The running best starts at -1.                             *)
RECURSIVE scanBest(_, _, _, _)
scanBest(scores, i, bestIdx, bestScore) ==
    IF i > Len(scores) THEN [idx |-> bestIdx, score |-> bestScore]
    ELSE IF scores[i] > bestScore
         THEN scanBest(scores, i + 1, i, scores[i])
         ELSE scanBest(scores, i + 1, bestIdx, bestScore)

\* part_000 findBestInputs(root): indexes into root.inputs, 0 for null
findBestInputs(root) ==
    LET inputs == root.inputs
        us == scanBest([i \in 1..Len(inputs) |-> userScoreOf(inputs[i])], 1, 0, -1)
        ps == scanBest([i \in 1..Len(inputs) |-> passScoreOf(inputs[i])], 1, 0, -1)
    IN  [userBest |-> us.idx, passBest |-> ps.idx]

\* a scorer that returns an element only for a positive score, without re-search
findBestInputsPositive(root) ==
    LET inputs == root.inputs
        ps == scanBest([i \in 1..Len(inputs) |-> scorePasswordInput(inputs[i])], 1, 0, 0)
        us == scanBest([i \in 1..Len(inputs) |-> scoreUsernameInput(inputs[i])], 1, 0, 0)
    IN  [userBest |-> us.idx, passBest |-> ps.idx]

\* content.js findBestInputs(root), with the re-search in the password field's form
findBestInputsPro(root) ==
    LET inputs == root.inputs
        ps == scanBest([i \in 1..Len(inputs) |-> scorePasswordInput(inputs[i])], 1, 0, -1)
        us == scanBest([i \in 1..Len(inputs) |-> scoreUsernameInput(inputs[i])], 1, 0, -1)
        passForm == IF ps.idx = 0 THEN 0 ELSE inputs[ps.idx].form
        userForm == IF us.idx = 0 THEN 0 ELSE inputs[us.idx].form
        \* passBest.form.querySelectorAll('input[type="email"], input[type="text"], input:not([type])')
        isCand(i) == /\ inputs[i].form = passForm
                     /\ inputs[i].type \in {"email", "text", ""}
        candScores == [i \in 1..Len(inputs) |->
                          IF isCand(i) THEN scoreUsernameInput(inputs[i]) ELSE -1]
        best == scanBest(candScores, 1, 0, -1)
    IN  IF /\ ps.idx # 0 /\ us.idx # 0
           /\ passForm # 0 /\ userForm # 0 /\ passForm # userForm
           /\ best.idx # 0 /\ best.score >= Max(3, us.score - 2)
        THEN [userBest |-> best.idx, passBest |-> ps.idx]
        ELSE [userBest |-> us.idx, passBest |-> ps.idx]

-----------------------------------------------------------------------------
(* FormFiller.  A fill operation returns what it did:                      *)
(*   ret     its return value,                                             *)
(*   writes  the setVal calls in order, each [root, idx, role],            *)
(*   clicked whether it clicked a submit control (at most one per call,    *)
(*           since every click is followed by "return true").              *)
(* can is canAutoSubmit() at the call; allRoots() is the page's roots.     *)

NoFill == [ret |-> FALSE, writes |-> <<>>, clicked |-> FALSE]

writeOf(i, idx, role) == [root |-> i, idx |-> idx, role |-> role]

\* part_000 fillBoth(u, p), from root i on
RECURSIVE fillBothFrom(_, _, _, _, _, _, _)
fillBothFrom(roots, u, p, can, i, anyFilled, writes) ==
    IF i > Len(roots) THEN [ret |-> anyFilled, writes |-> writes, clicked |-> FALSE]
    ELSE
      LET fb == findBestInputs(roots[i])
          wu == IF fb.userBest # 0 /\ u # "" THEN <<writeOf(i, fb.userBest, "u")>> ELSE <<>>
          wp == IF fb.passBest # 0 /\ p # "" THEN <<writeOf(i, fb.passBest, "p")>> ELSE <<>>
          changed == wu # <<>> \/ wp # <<>>
      IN  IF changed /\ fb.passBest # 0
          THEN [ret |-> TRUE, writes |-> writes \o wu \o wp,
                clicked |-> roots[i].submit /\ can]
          ELSE fillBothFrom(roots, u, p, can, i + 1, anyFilled \/ changed,
                            writes \o wu \o wp)

fillBoth(roots, u, p, can) == fillBothFrom(roots, u, p, can, 1, FALSE, <<>>)

\* part_000 fillUser(u), from root i on
RECURSIVE fillUserFrom(_, _, _, _)
fillUserFrom(roots, u, can, i) ==
    IF i > Len(roots) THEN NoFill
    ELSE
      LET fb == findBestInputs(roots[i])
      IN  IF fb.userBest # 0 /\ fb.passBest = 0 /\ u # ""
          THEN [ret |-> TRUE, writes |-> <<writeOf(i, fb.userBest, "u")>>,
                clicked |-> roots[i].submit /\ can]
          ELSE fillUserFrom(roots, u, can, i + 1)

fillUser(roots, u, can) == fillUserFrom(roots, u, can, 1)

\* part_000 fillPass(p), from root i on
RECURSIVE fillPassFrom(_, _, _, _)
fillPassFrom(roots, p, can, i) ==
    IF i > Len(roots) THEN NoFill
    ELSE
      LET fb == findBestInputs(roots[i])
      IN  IF fb.passBest # 0 /\ p # ""
          THEN [ret |-> TRUE, writes |-> <<writeOf(i, fb.passBest, "p")>>,
                clicked |-> roots[i].submit /\ can]
          ELSE fillPassFrom(roots, p, can, i + 1)

fillPass(roots, p, can) == fillPassFrom(roots, p, can, 1)

\* content.js fillBothIfPresent(u, p), from root i on; it clicks with no gate
RECURSIVE fillBothIfPresentFrom(_, _, _, _, _, _)
fillBothIfPresentFrom(roots, u, p, i, any, writes) ==
    IF i > Len(roots) THEN [ret |-> FALSE, writes |-> writes, clicked |-> FALSE]
    ELSE
      LET fb == findBestInputsPro(roots[i])
          wu == IF fb.userBest # 0 /\ u # "" THEN <<writeOf(i, fb.userBest, "u")>> ELSE <<>>
          wp == IF fb.passBest # 0 /\ p # "" THEN <<writeOf(i, fb.passBest, "p")>> ELSE <<>>
          any2 == any \/ wu # <<>> \/ wp # <<>>
      IN  IF any2 /\ fb.passBest # 0
          THEN [ret |-> TRUE, writes |-> writes \o wu \o wp, clicked |-> roots[i].submit]
          ELSE fillBothIfPresentFrom(roots, u, p, i + 1, any2, writes \o wu \o wp)

fillBothIfPresent(roots, u, p) == fillBothIfPresentFrom(roots, u, p, 1, FALSE, <<>>)

\* content.js fillUsernameOnly(u), from root i on
RECURSIVE fillUsernameOnlyFrom(_, _, _)
fillUsernameOnlyFrom(roots, u, i) ==
    IF i > Len(roots) THEN NoFill
    ELSE
      LET fb == findBestInputsPro(roots[i])
      IN  IF fb.userBest # 0 /\ fb.passBest = 0 /\ u # ""
          THEN [ret |-> TRUE, writes |-> <<writeOf(i, fb.userBest, "u")>>,
                clicked |-> roots[i].submit]
          ELSE fillUsernameOnlyFrom(roots, u, i + 1)

fillUsernameOnly(roots, u) == fillUsernameOnlyFrom(roots, u, 1)

\* content.js fillPasswordIfPresent(p), from root i on
RECURSIVE fillPasswordIfPresentFrom(_, _, _)
fillPasswordIfPresentFrom(roots, p, i) ==
    IF i > Len(roots) THEN NoFill
    ELSE
      LET fb == findBestInputsPro(roots[i])
      IN  IF fb.passBest # 0 /\ p # ""
          THEN [ret |-> TRUE, writes |-> <<writeOf(i, fb.passBest, "p")>>,
                clicked |-> roots[i].submit]
          ELSE fillPasswordIfPresentFrom(roots, p, i + 1)

fillPasswordIfPresent(roots, p) == fillPasswordIfPresentFrom(roots, p, 1)

-----------------------------------------------------------------------------
(* Anti-loop gate and FailureDetector (part_000 content script) *)

\* canAutoSubmit()
canAutoSubmit(a, t) ==
    /\ a.autoSubmit
    /\ ~(t < a.coolDownUntil)
    /\ ~(a.submittedCount >= MAX_SUBMITS_PER_TAB)

\* recordSubmit(): anti after an automatic click at address href
recordSubmit(a, href) ==
    [a EXCEPT !.submittedCount = @ + 1, !.lastUrlAfterSubmit = href]

\* onFailureCoolDown()
onFailureCoolDown(a, t) == [a EXCEPT !.coolDownUntil = t + SUBMIT_COOLDOWN_MS]

\* a detector that takes every input of the main document for a failed login
pageShowsLikelyFailureAnyAddress(pg, a, href) ==
    \/ pg.failText
    \/ findBestInputs(pg.roots[1]).passBest # 0

\* pageShowsLikelyFailure(): the text signal, or a password field in the main
\* document while the address is the one recorded at the last submit
pageShowsLikelyFailure(pg, a, href) ==
    \/ pg.failText
    \/ /\ findBestInputs(pg.roots[1]).passBest # 0
       /\ a.lastUrlAfterSubmit # ""
       /\ a.lastUrlAfterSubmit = href

\* anti after a fill operation that returned r
antiAfter(a, r, href) == IF r.clicked THEN recordSubmit(a, href) ELSE a

-----------------------------------------------------------------------------
(* The page context of Dest *)

\* part_000: anti at script start
AntiInit ==
    [autoSubmit |-> AUTO_SUBMIT_DEFAULT, submittedCount |-> 0,
     coolDownUntil |-> 0, lastUrlAfterSubmit |-> ""]

(* The content script's state in page load n.  alive: the page context     *)
(* exists; awaiting: requestCreds was sent and its callback has not run;   *)
(* started: runNormal / runTwoStep (tryAutofillNormal / tryAutofillTwoStep *)
(* in content.js) was called; armed, u, p,                                 *)
(* twoStep, stage: part_000's state record (content.js keeps creds and     *)
(* stage in the closure and has no armed flag); attempts, interval: the    *)
(* poll loop; observer: the mutation observer is connected; observerTimer: *)
(* part_000's setTimeout(() => mo.disconnect()) is pending; exhausted: the *)
(* loop ended in its attempt-ceiling branch; runtime: the extension        *)
(* runtime is reachable from this context (chrome.runtime.id is set and    *)
(* sendMessage does not throw).                                            *)
FreshContext(n) ==
    [load |-> n, alive |-> TRUE, runtime |-> TRUE, awaiting |-> TRUE, started |-> FALSE,
     armed |-> FALSE, u |-> "", p |-> "", twoStep |-> FALSE, stage |-> "",
     attempts |-> 0, interval |-> FALSE, observer |-> FALSE,
     observerTimer |-> FALSE, exhausted |-> FALSE]

NoContext == [FreshContext(0) EXCEPT !.alive = FALSE, !.awaiting = FALSE]

BlankPage == [roots |-> NoFieldsPage, failText |-> FALSE]

(* What a trigger did.  kind: "poll" or "mutation" ("none": the latest     *)
(* step was no trigger); liveBefore: the flow was armed with its interval  *)
(* running when the trigger fired; doneBefore: the flow had already ended  *)
(* (interval cleared); detected: the FailureDetector was positive on the   *)
(* page the trigger saw; writes, clicks, sent: its setVal calls, its       *)
(* submit clicks and the messages it sent, in order.                       *)
\* msg: the request the coordinator handled in the latest step, with the
\* sender's entry before it; unload: the page context the latest step discarded
NoMsg == [type |-> "none", tab |-> 0, old |-> NoCreds, payload |-> NoCreds]
NoUnload == [none |-> TRUE]
NoTrigger ==
    [kind |-> "none", liveBefore |-> FALSE, doneBefore |-> FALSE, detected |-> FALSE,
     writes |-> <<>>, clicks |-> 0, sent |-> <<>>, msg |-> NoMsg, unload |-> NoUnload]

\* a teardown that forgets the observers and the pending timer
disposeAllKeepObserver(c) == [c EXCEPT !.alive = FALSE, !.interval = FALSE]

(* content.js beforeunload: every tracked disposer runs, clearing the      *)
(* interval and disconnecting the observers; part_000 registers nothing    *)
(* and loses its timers and observers with the document.                   *)
disposeAll(c) ==
    [c EXCEPT !.alive = FALSE, !.interval = FALSE, !.observer = FALSE,
              !.observerTimer = FALSE]

\* the flow has ended: Disarmed in the words of the state machine
Disarmed(c) == c.started /\ ~c.interval

\* the flow is armed and polling
Live(c) == c.started /\ c.interval

Outcome(c, a, writes, n, sent) ==
    [cs |-> c, anti |-> a, writes |-> writes, clicks |-> n, sent |-> sent]

Clicks(r) == IF r.clicked THEN 1 ELSE 0

\* part_000 runNormal: the interval callback
runNormalTick(c, a, pg, href, t) ==
    LET c1 == [c EXCEPT !.attempts = @ + 1]
    IN  IF ~c1.armed
        THEN Outcome([c1 EXCEPT !.interval = FALSE], a, <<>>, 0, <<>>)
        ELSE IF pageShowsLikelyFailure(pg, a, href)
        THEN Outcome([c1 EXCEPT !.armed = FALSE, !.interval = FALSE],
                     onFailureCoolDown(a, t), <<>>, 0,
                     <<"clearCreds", "markOriginFailure">>)
        ELSE LET r == fillBoth(pg.roots, c1.u, c1.p, canAutoSubmit(a, t))
             IN  IF r.ret
                 THEN Outcome([c1 EXCEPT !.armed = FALSE, !.interval = FALSE],
                              antiAfter(a, r, href), r.writes, Clicks(r), <<"clearCreds">>)
                 ELSE IF c1.attempts >= NormalMax
                 THEN Outcome([c1 EXCEPT !.interval = FALSE, !.exhausted = TRUE],
                              a, r.writes, 0, <<>>)
                 ELSE Outcome(c1, a, r.writes, 0, <<>>)

\* part_000 runNormal: the MutationObserver callback
runNormalMutation(c, a, pg, href, t) ==
    IF ~c.armed THEN Outcome(c, a, <<>>, 0, <<>>)
    ELSE LET r == fillBoth(pg.roots, c.u, c.p, canAutoSubmit(a, t))
         IN  Outcome(c, antiAfter(a, r, href), r.writes, Clicks(r), <<>>)

\* part_000 runTwoStep: the interval callback
runTwoStepTick(c, a, pg, href, t) ==
    LET c1 == [c EXCEPT !.attempts = @ + 1]
        timedOut(cx) == IF c1.attempts >= TwoStepMax
                        THEN [cx EXCEPT !.interval = FALSE,
                                        !.exhausted = cx.armed /\ cx.interval]
                        ELSE cx
    IN  IF ~c1.armed
        THEN Outcome([c1 EXCEPT !.interval = FALSE], a, <<>>, 0, <<>>)
        ELSE IF pageShowsLikelyFailure(pg, a, href)
        THEN Outcome([c1 EXCEPT !.armed = FALSE, !.interval = FALSE],
                     onFailureCoolDown(a, t), <<>>, 0,
                     <<"clearCreds", "markOriginFailure">>)
        ELSE IF c1.stage = "init"
        THEN LET r == fillBoth(pg.roots, c1.u, c1.p, canAutoSubmit(a, t))
                 a1 == antiAfter(a, r, href)
                 ru == fillUser(pg.roots, c1.u, canAutoSubmit(a1, t))
                 a2 == antiAfter(a1, ru, href)
             IN  IF r.ret
                 THEN Outcome([c1 EXCEPT !.armed = FALSE, !.interval = FALSE],
                              a1, r.writes, Clicks(r), <<"clearCreds">>)
                 ELSE IF ru.ret
                 THEN Outcome(timedOut([c1 EXCEPT !.stage = "userSubmitted"]), a2,
                              r.writes \o ru.writes, Clicks(r) + Clicks(ru),
                              <<"updateStage">>)
                 ELSE Outcome(timedOut(c1), a2, r.writes \o ru.writes, 0, <<>>)
        ELSE LET rp == fillPass(pg.roots, c1.p, canAutoSubmit(a, t))
             IN  IF rp.ret
                 THEN Outcome(timedOut([c1 EXCEPT !.armed = FALSE, !.interval = FALSE]),
                              antiAfter(a, rp, href), rp.writes, Clicks(rp),
                              <<"clearCreds">>)
                 ELSE Outcome(timedOut(c1), a, rp.writes, 0, <<>>)

\* part_000 runTwoStep: the MutationObserver callback
runTwoStepMutation(c, a, pg, href, t) ==
    IF ~c.armed THEN Outcome(c, a, <<>>, 0, <<>>)
    ELSE LET r == IF c.stage = "userSubmitted"
                  THEN fillPass(pg.roots, c.p, canAutoSubmit(a, t))
                  ELSE fillBoth(pg.roots, c.u, c.p, canAutoSubmit(a, t))
         IN  Outcome(c, antiAfter(a, r, href), r.writes, Clicks(r), <<>>)

\* content.js tryAutofillNormal: the interval callback
tryAutofillNormalTick(c, a, pg) ==
    LET c1 == [c EXCEPT !.attempts = @ + 1]
        r == fillBothIfPresent(pg.roots, c1.u, c1.p)
    IN  IF r.ret
        THEN Outcome([c1 EXCEPT !.interval = FALSE], a, r.writes, Clicks(r),
                     <<"clearCreds">>)
        ELSE IF c1.attempts >= ProNormalMax
        THEN Outcome([c1 EXCEPT !.interval = FALSE, !.exhausted = TRUE],
                     a, r.writes, 0, <<>>)
        ELSE Outcome(c1, a, r.writes, 0, <<>>)

\* content.js tryAutofillNormal: the MutationObserver callback
tryAutofillNormalMutation(c, a, pg) ==
    LET r == fillBothIfPresent(pg.roots, c.u, c.p)
    IN  Outcome(c, a, r.writes, Clicks(r), <<>>)

\* content.js tryAutofillTwoStep: the interval callback
tryAutofillTwoStepTick(c, a, pg) ==
    LET c1 == [c EXCEPT !.attempts = @ + 1]
        timedOut(cx) == IF c1.attempts >= ProTwoStepMax
                        THEN [cx EXCEPT !.interval = FALSE, !.exhausted = TRUE]
                        ELSE cx
    IN  IF c1.stage = "init"
        THEN LET r == fillBothIfPresent(pg.roots, c1.u, c1.p)
                 ru == fillUsernameOnly(pg.roots, c1.u)
             IN  IF r.ret
                 THEN Outcome([c1 EXCEPT !.interval = FALSE], a, r.writes, Clicks(r),
                              <<"clearCreds">>)
                 ELSE IF ru.ret
                 THEN Outcome(timedOut([c1 EXCEPT !.stage = "userSubmitted"]), a,
                              r.writes \o ru.writes, Clicks(ru), <<"updateStage">>)
                 ELSE Outcome(timedOut(c1), a, r.writes \o ru.writes, 0, <<>>)
        ELSE LET rp == fillPasswordIfPresent(pg.roots, c1.p)
             IN  IF rp.ret
                 THEN Outcome([c1 EXCEPT !.interval = FALSE], a, rp.writes, Clicks(rp),
                              <<"clearCreds">>)
                 ELSE Outcome(timedOut(c1), a, rp.writes, 0, <<>>)

\* content.js tryAutofillTwoStep: the MutationObserver callback
tryAutofillTwoStepMutation(c, a, pg) ==
    IF c.stage = "userSubmitted"
    THEN LET rp == fillPasswordIfPresent(pg.roots, c.p)
         IN  IF rp.ret
             THEN Outcome([c EXCEPT !.observer = FALSE, !.interval = FALSE], a,
                          rp.writes, Clicks(rp), <<"clearCreds">>)
             ELSE Outcome(c, a, rp.writes, 0, <<>>)
    ELSE LET r == fillBothIfPresent(pg.roots, c.u, c.p)
         IN  Outcome(c, a, r.writes, Clicks(r), <<>>)

\* the interval callback of the installed build, in the mode of the flow
pollOutcome(b, c, a, pg, href, t) ==
    IF b = "part_000"
    THEN IF c.twoStep THEN runTwoStepTick(c, a, pg, href, t)
                      ELSE runNormalTick(c, a, pg, href, t)
    ELSE IF c.twoStep THEN tryAutofillTwoStepTick(c, a, pg)
                      ELSE tryAutofillNormalTick(c, a, pg)

\* the MutationObserver callback of the installed build
mutationOutcome(b, c, a, pg, href, t) ==
    IF b = "part_000"
    THEN IF c.twoStep THEN runTwoStepMutation(c, a, pg, href, t)
                      ELSE runNormalMutation(c, a, pg, href, t)
    ELSE IF c.twoStep THEN tryAutofillTwoStepMutation(c, a, pg)
                      ELSE tryAutofillNormalMutation(c, a, pg)

-----------------------------------------------------------------------------
(* Messages to the coordinator *)

\* a runtime message from tab t; load: the page load that sent it; url: sender.tab.url
Msg(type, t, load, url) == [type |-> type, tab |-> t, load |-> load, url |-> url]

\* the messages a trigger of Dest sent, as queued messages
RECURSIVE sentMsgs(_, _, _)
sentMsgs(types, load, url) ==
    IF types = <<>> THEN <<>>
    ELSE <<Msg(Head(types), Dest, load, url)>> \o sentMsgs(Tail(types), load, url)

\* the message types the content script of each build sends
SentTypes(b) ==
    IF b = "part_000"
    THEN {"requestCreds", "updateStage", "clearCreds", "markOriginFailure"}
    ELSE {"requestCreds", "updateStage", "clearCreds"}

\* a send that is not wrapped: the exception ends the callback at the send
safeSendUncaught(c, o, q, msgs) ==
    [cs |-> IF c.runtime \/ msgs = <<>> THEN o.cs
            ELSE [c EXCEPT !.attempts = o.cs.attempts],
     queue |-> IF c.runtime THEN q \o msgs ELSE q]

(* safeSend / safeSendMessage in a callback of context c whose outcome is  *)
(* o: with the runtime reachable the messages are queued; otherwise        *)
(* sendMessage throws and the exception is swallowed (part_000), or        *)
(* runtimeAlive() is false and nothing is sent (content.js); in both cases *)
(* the callback goes on to its end.                                        *)
safeSend(c, o, q, msgs) ==
    [cs |-> o.cs, queue |-> IF c.runtime THEN q \o msgs ELSE q]

\* the vault entry an arming request stores
Entry(link, twoStep) ==
    [u |-> link.u, p |-> link.p, twoStep |-> twoStep, stage |-> "init"]

\* armTab(tabId, payload) / credsByTab.set
\* armTab that keeps the stage of an entry it replaces
armTabKeepStage(creds, t, payload) ==
    IF creds[t] # NoCreds
    THEN [creds EXCEPT ![t] = [payload EXCEPT !.stage = creds[t].stage]]
    ELSE [creds EXCEPT ![t] = payload]

armTab(creds, t, payload) == [creds EXCEPT ![t] = payload]

\* disarmTab(tabId) / credsByTab.delete
\* disarmTab that empties the whole vault
disarmTabAll(creds, t) == [x \in DOMAIN creds |-> NoCreds]

\* disarmTab that deletes nothing
disarmTabKeep(creds, t) == creds

disarmTab(creds, t) == [creds EXCEPT ![t] = NoCreds]

\* the cooldown check with its comparison the wrong way round
cooldownActiveReversed(failUntil, origin, t) ==
    origin \in DOMAIN failUntil /\ failUntil[origin] < t

\* part_000 contextMenus.onClicked: the cooldown check before arming
cooldownActive(failUntil, origin, t) ==
    origin \in DOMAIN failUntil /\ t < failUntil[origin]

\* markOriginFailure that keeps a cooldown already recorded for the origin
markOriginFailureKeepOld(failUntil, url, t) ==
    IF originOf(url) # "" /\ originOf(url) \in DOMAIN failUntil
       /\ failUntil[originOf(url)] = 0
    THEN [failUntil EXCEPT ![originOf(url)] = t + SUBMIT_COOLDOWN_MS]
    ELSE failUntil

\* part_000 onMessage 'markOriginFailure'
markOriginFailure(failUntil, url, t) ==
    IF originOf(url) # "" /\ originOf(url) \in DOMAIN failUntil
    THEN [failUntil EXCEPT ![originOf(url)] = t + SUBMIT_COOLDOWN_MS]
    ELSE failUntil

\* updateStage that starts from an empty object when the entry is absent
updateStageCreate(creds, t, stage) ==
    IF creds[t] # NoCreds
    THEN [creds EXCEPT ![t].stage = stage]
    ELSE [creds EXCEPT ![t] = [u |-> "", p |-> "", twoStep |-> FALSE, stage |-> stage]]

\* onMessage 'updateStage'
updateStage(creds, t, stage) ==
    IF creds[t] # NoCreds THEN [creds EXCEPT ![t].stage = stage] ELSE creds

-----------------------------------------------------------------------------
(* The state machine *)

\* no function has been called
NoInput == <<>>
NoOutput == [kind |-> "none"]

Init ==
    /\ build \in Builds
    /\ credsByTab = [t \in Tabs |-> NoCreds]
    /\ failUntilByOrigin = [o \in Origins |-> 0]
    /\ now = 0
    /\ tabUrl = [t \in Tabs |-> Unused]
    /\ pendingCreate = {}
    /\ queue = <<>>
    /\ reply = [t \in Tabs |-> NoReply]
    /\ cs = NoContext
    /\ anti = AntiInit
    /\ page = BlankPage
    /\ clicks = 0
    /\ last = NoTrigger
    /\ failedAt = [o \in Origins |-> -1]
    /\ coolOpened = {}
    /\ succeededAt = 0
    /\ submits = 0
    /\ input = NoInput
    /\ output = NoOutput

(* The browser opens tab t at address url; it hands out the ids of the     *)
(* other tabs in increasing order.  In Dest the content script is          *)
(* injected: a fresh page context whose last statement sends requestCreds. *)
OpenTab(t, url, pg) ==
    /\ tabUrl[t] = Unused
    /\ \A t2 \in Tabs \ {Dest} : t2 < t => tabUrl[t2] # Unused
    /\ tabUrl' = [tabUrl EXCEPT ![t] = url]
    /\ IF t = Dest
       THEN /\ cs' = FreshContext(1)
            /\ page' = pg
            /\ queue' = Append(queue, Msg("requestCreds", Dest, 1, url))
       ELSE /\ pg = BlankPage
            /\ UNCHANGED <<cs, page, queue>>
    /\ anti' = AntiInit
    /\ clicks' = 0
    /\ last' = NoTrigger
    /\ coolOpened' = IF /\ failedAt[originOf(url)] >= 0
                        /\ now < failedAt[originOf(url)] + SUBMIT_COOLDOWN_MS
                     THEN coolOpened \cup {t} ELSE coolOpened
    /\ UNCHANGED <<input, output, build, now, reply, failedAt, succeededAt, submits>>

(* part_000 contextMenus.onClicked for a parsed colon-link: under an       *)
(* active cooldown of the link's origin the address is opened and nothing  *)
(* is armed; otherwise the tab is created and armed in its callback.       *)
ContextMenuClick(link, twoStep, incog, t, pg) ==
    /\ build = "part_000"
    /\ OpenTab(t, link.url, pg)
    /\ pendingCreate' =
          IF cooldownActive(failUntilByOrigin, originOf(link.url), now)
          THEN pendingCreate
          ELSE pendingCreate \cup {[tab |-> t, payload |-> Entry(link, twoStep)]}
    /\ UNCHANGED <<credsByTab, failUntilByOrigin>>

\* background.js contextMenus.onClicked
ContextMenuClickPro(link, twoStep, t, pg) ==
    /\ build = "pro"
    /\ OpenTab(t, link.url, pg)
    /\ pendingCreate' = pendingCreate \cup {[tab |-> t, payload |-> Entry(link, twoStep)]}
    /\ UNCHANGED <<credsByTab, failUntilByOrigin>>

\* background.js onMessage 'openArmedTab' (from a link click, the salvage or the popup)
OpenArmedTab(link, twoStep, t, pg) ==
    /\ build = "pro"
    /\ OpenTab(t, link.url, pg)
    /\ pendingCreate' = pendingCreate \cup {[tab |-> t, payload |-> Entry(link, twoStep)]}
    /\ UNCHANGED <<credsByTab, failUntilByOrigin>>

\* the callback of chrome.tabs.create / chrome.windows.create: the tab is armed
CreateCallback(c) ==
    /\ c \in pendingCreate
    /\ pendingCreate' = pendingCreate \ {c}
    /\ credsByTab' = armTab(credsByTab, c.tab, c.payload)
    /\ last' = NoTrigger
    /\ UNCHANGED <<input, output, build, failUntilByOrigin, now, tabUrl, queue, reply, cs, anti,
                   page, clicks, failedAt, coolOpened, succeededAt, submits>>

\* whether the page context that sent m still waits for the response
SenderAlive(m) ==
    IF m.tab = Dest THEN cs.alive /\ cs.runtime /\ cs.load = m.load
    ELSE tabUrl[m.tab] \in Urls

(* chrome.runtime.onMessage of the coordinator, for the oldest message.    *)
(* background.js has no markOriginFailure handler.                         *)
HandleMessage ==
    /\ queue # <<>>
    /\ LET m == Head(queue)
       IN  /\ queue' = Tail(queue)
           /\ reply' = IF m.type = "requestCreds" /\ SenderAlive(m)
                       THEN [reply EXCEPT ![m.tab] = [creds |-> credsByTab[m.tab]]]
                       ELSE reply
           /\ credsByTab' =
                 CASE m.type = "updateStage" -> updateStage(credsByTab, m.tab, "userSubmitted")
                   [] m.type = "clearCreds" -> disarmTab(credsByTab, m.tab)
                   [] OTHER -> credsByTab
           /\ failUntilByOrigin' =
                 IF m.type = "markOriginFailure" /\ build = "part_000"
                 THEN markOriginFailure(failUntilByOrigin, m.url, now)
                 ELSE failUntilByOrigin
           /\ failedAt' = IF m.type = "markOriginFailure" /\ originOf(m.url) \in Origins
                          THEN [failedAt EXCEPT ![originOf(m.url)] = now]
                          ELSE failedAt
           /\ last' = [NoTrigger EXCEPT
                          !.msg = [type |-> m.type, tab |-> m.tab,
                                   old |-> credsByTab[m.tab], payload |-> NoCreds]]
    /\ UNCHANGED <<input, output, build, now, tabUrl, pendingCreate, cs, anti, page, clicks, coolOpened, succeededAt, submits>>

(* The callback of requestCreds in Dest: without creds nothing starts;    *)
(* with creds the flow of the entry's mode starts its interval and its     *)
(* observer (part_000 also starts the timer that disconnects the observer).*)
DeliverReply ==
    /\ cs.alive /\ cs.awaiting
    /\ reply[Dest] # NoReply
    /\ LET c == reply[Dest].creds
       IN  cs' = IF c = NoCreds
                 THEN [cs EXCEPT !.awaiting = FALSE]
                 ELSE [cs EXCEPT !.awaiting = FALSE, !.started = TRUE,
                                 !.armed = (build = "part_000"),
                                 !.u = c.u, !.p = c.p, !.twoStep = c.twoStep,
                                 !.stage = c.stage,
                                 !.attempts = 0, !.interval = TRUE, !.observer = TRUE,
                                 !.observerTimer = (build = "part_000")]
    /\ last' = NoTrigger
    /\ UNCHANGED <<input, output, build, credsByTab, failUntilByOrigin, now, tabUrl, pendingCreate,
                   queue, reply, anti, page, clicks, failedAt, coolOpened, succeededAt, submits>>

\* the poll ticks that fit in the observer's lifetime
ObserverTicks(c) == IF c.twoStep THEN TwoStepObserverTicks ELSE NormalObserverTicks

\* the effects of a trigger of Dest whose callback had outcome o
Trigger(kind, o, pg) ==
    /\ cs' = safeSend(cs, o, queue, sentMsgs(o.sent, cs.load, tabUrl[Dest])).cs
    /\ anti' = o.anti
    /\ clicks' = clicks + o.clicks
    /\ submits' = IF submits + o.clicks > MaxSubmits THEN MaxSubmits
                  ELSE submits + o.clicks
    /\ queue' = safeSend(cs, o, queue, sentMsgs(o.sent, cs.load, tabUrl[Dest])).queue
    /\ last' = [kind |-> kind, liveBefore |-> Live(cs), doneBefore |-> Disarmed(cs),
                detected |-> pageShowsLikelyFailure(pg, anti, tabUrl[Dest]),
                writes |-> o.writes, clicks |-> o.clicks, sent |-> o.sent,
                msg |-> NoMsg, unload |-> NoUnload]
    /\ succeededAt' =
          IF /\ kind = "poll" /\ succeededAt = 0
             /\ Live(cs) /\ ~Live(o.cs) /\ ~o.cs.exhausted
             /\ ~(build = "part_000" /\ pageShowsLikelyFailure(pg, anti, tabUrl[Dest]))
          THEN cs.load ELSE succeededAt

(* A poll tick: the setInterval callback.  A tick later than the observer's *)
(* lifetime comes after the timer that disconnects the observer.           *)
Poll ==
    /\ cs.alive /\ cs.interval
    /\ cs.observerTimer => cs.attempts < ObserverTicks(cs)
    /\ Trigger("poll", pollOutcome(build, cs, anti, page, tabUrl[Dest], now), page)
    /\ UNCHANGED <<input, output, build, credsByTab, failUntilByOrigin, now, tabUrl, pendingCreate,
                   reply, page, failedAt, coolOpened>>

(* The page changes its content to pg (possibly the same roots with new    *)
(* children); a connected observer is notified and runs its callback.      *)
DomChange(pg) ==
    /\ cs.alive
    /\ clicks < MaxClicks
    /\ page' = pg
    /\ IF cs.observer
       THEN Trigger("mutation",
                    mutationOutcome(build, cs, anti, pg, tabUrl[Dest], now), pg)
       ELSE /\ last' = NoTrigger
            /\ UNCHANGED <<cs, anti, clicks, queue, succeededAt, submits>>
    /\ UNCHANGED <<input, output, build, credsByTab, failUntilByOrigin, now, tabUrl, pendingCreate,
                   reply, failedAt, coolOpened>>

(* part_000: setTimeout(() => mo.disconnect(), 15000 / 20000).  While the   *)
(* interval runs, the timer fires after the ticks that fit in its delay.   *)
ObserverTimeout ==
    /\ cs.alive /\ cs.observerTimer
    /\ cs.interval => cs.attempts >= ObserverTicks(cs)
    /\ cs' = [cs EXCEPT !.observer = FALSE, !.observerTimer = FALSE]
    /\ last' = NoTrigger
    /\ UNCHANGED <<input, output, build, credsByTab, failUntilByOrigin, now, tabUrl, pendingCreate,
                   queue, reply, anti, page, clicks, failedAt, coolOpened, succeededAt, submits>>

(* Dest loads another page (a navigation or a reload): the old page        *)
(* context is discarded with its timers and observers, the content script  *)
(* is injected again and sends requestCreds.                               *)
Navigate(url, pg) ==
    /\ cs.alive
    /\ cs.load < MaxLoads
    /\ Len(queue) < MaxQueue
    /\ tabUrl' = [tabUrl EXCEPT ![Dest] = url]
    /\ cs' = FreshContext(cs.load + 1)
    /\ anti' = AntiInit
    /\ clicks' = 0
    /\ page' = pg
    /\ reply' = [reply EXCEPT ![Dest] = NoReply]
    /\ queue' = Append(queue, Msg("requestCreds", Dest, cs.load + 1, url))
    /\ last' = [NoTrigger EXCEPT !.unload = [before |-> cs, after |-> disposeAll(cs)]]
    /\ UNCHANGED <<input, output, build, credsByTab, failUntilByOrigin, now, pendingCreate, failedAt, coolOpened, succeededAt, submits>>

\* tab t is closed; part_000 tabs.onRemoved disarms it, background.js has no listener
CloseTab(t) ==
    /\ tabUrl[t] \in Urls
    /\ tabUrl' = [tabUrl EXCEPT ![t] = Closed]
    /\ credsByTab' = IF build = "part_000" THEN disarmTab(credsByTab, t) ELSE credsByTab
    /\ IF t = Dest
       THEN /\ cs' = [NoContext EXCEPT !.load = cs.load]
            /\ anti' = AntiInit
            /\ clicks' = 0
            /\ page' = BlankPage
       ELSE UNCHANGED <<cs, anti, clicks, page>>
    /\ last' = IF t = Dest
               THEN [NoTrigger EXCEPT !.unload = [before |-> cs, after |-> disposeAll(cs)]]
               ELSE NoTrigger
    /\ UNCHANGED <<input, output, build, failUntilByOrigin, now, pendingCreate, queue, reply, failedAt, coolOpened, succeededAt, submits>>

\* the content script of the other tab sends a message
OtherTabSend(t, type) ==
    /\ t # Dest
    /\ tabUrl[t] \in Urls
    /\ type \in SentTypes(build)
    /\ Len(queue) < MaxOtherQueue
    /\ queue' = Append(queue, Msg(type, t, 0, tabUrl[t]))
    /\ last' = NoTrigger
    /\ UNCHANGED <<input, output, build, credsByTab, failUntilByOrigin, now, tabUrl, pendingCreate,
                   reply, cs, anti, page, clicks, failedAt, coolOpened, succeededAt, submits>>

\* time passes: by one millisecond less than the cooldown window, or by the window
ClockSteps == {SUBMIT_COOLDOWN_MS - 1, SUBMIT_COOLDOWN_MS}

AdvanceClock(d) ==
    /\ now + d <= MaxClockSteps * SUBMIT_COOLDOWN_MS
    /\ now' = now + d
    /\ last' = NoTrigger
    /\ UNCHANGED <<input, output, build, credsByTab, failUntilByOrigin, tabUrl, pendingCreate,
                   queue, reply, cs, anti, page, clicks, failedAt, coolOpened, succeededAt, submits>>

(* The flow of the destination tab: one arming request opens Dest, and the *)
(* page context of Dest runs against a page that changes as it likes.      *)
Next ==
    \/ \E link \in Links, twoStep \in BOOLEAN, incog \in BOOLEAN, pg \in Pages :
          ContextMenuClick(link, twoStep, incog, Dest, pg)
    \/ \E link \in Links, twoStep \in BOOLEAN, pg \in Pages :
          ContextMenuClickPro(link, twoStep, Dest, pg)
    \/ \E link \in Links, twoStep \in BOOLEAN, pg \in Pages :
          OpenArmedTab(link, twoStep, Dest, pg)
    \/ \E c \in pendingCreate : CreateCallback(c)
    \/ HandleMessage
    \/ DeliverReply
    \/ Poll
    \/ \E pg \in Pages : DomChange(pg)
    \/ ObserverTimeout
    \/ \E url \in Urls, pg \in Pages : Navigate(url, pg)
    \/ CloseTab(Dest)

Spec == Init /\ [][Next]_vars

(* The coordinator and its cooldown map among the other tabs, with the     *)
(* clock running.  The content scripts of those tabs ask for their creds   *)
(* and report failures whenever they like.  The mode of an arming is read  *)
(* after the cooldown check and is single-step here.                       *)
CooldownTypes == {"requestCreds", "markOriginFailure"}

NextCooldown ==
    \/ \E link \in Links, incog \in BOOLEAN, t \in Tabs \ {Dest} :
          ContextMenuClick(link, FALSE, incog, t, BlankPage)
    \/ \E link \in Links, t \in Tabs \ {Dest} :
          ContextMenuClickPro(link, FALSE, t, BlankPage)
    \/ \E link \in Links, t \in Tabs \ {Dest} :
          OpenArmedTab(link, FALSE, t, BlankPage)
    \/ \E c \in pendingCreate : CreateCallback(c)
    \/ HandleMessage
    \/ \E t \in Tabs \ {Dest}, type \in CooldownTypes : OtherTabSend(t, type)
    \/ \E d \in ClockSteps : AdvanceClock(d)

SpecCooldown == Init /\ [][NextCooldown]_vars

(* The vault operations as functions of the vault: each of the other tabs  *)
(* is open and holds no entry (never armed, or cleared) or an entry at     *)
(* either stage; to every such vault armTab is applied, or the requests    *)
(* the content scripts send are handled.                                   *)
VaultEntries ==
    {NoCreds} \cup {[Entry(link, twoStep) EXCEPT !.stage = st] :
                       link \in Links, twoStep \in BOOLEAN,
                       st \in {"init", "userSubmitted"}}

InitVault ==
    /\ build \in Builds
    /\ credsByTab \in {f \in [Tabs -> VaultEntries] : f[Dest] = NoCreds}
    /\ failUntilByOrigin = [o \in Origins |-> 0]
    /\ now = 0
    /\ tabUrl = [t \in Tabs |-> IF t = Dest THEN Unused ELSE "https://a.test/login"]
    /\ pendingCreate = {}
    /\ queue = <<>>
    /\ reply = [t \in Tabs |-> NoReply]
    /\ cs = NoContext
    /\ anti = AntiInit
    /\ page = BlankPage
    /\ clicks = 0
    /\ last = NoTrigger
    /\ failedAt = [o \in Origins |-> -1]
    /\ coolOpened = {}
    /\ succeededAt = 0
    /\ submits = 0
    /\ input = NoInput
    /\ output = NoOutput

\* armTab / credsByTab.set for tab t, whether or not t has an entry
ArmTab(t, link, twoStep) ==
    /\ tabUrl[t] \in Urls
    /\ credsByTab' = armTab(credsByTab, t, Entry(link, twoStep))
    /\ last' = [NoTrigger EXCEPT
                   !.msg = [type |-> "arm", tab |-> t, old |-> credsByTab[t],
                            payload |-> Entry(link, twoStep)]]
    /\ UNCHANGED <<input, output, build, failUntilByOrigin, now, tabUrl, pendingCreate, queue, reply,
                   cs, anti, page, clicks, failedAt, coolOpened, succeededAt, submits>>

NextVault ==
    \/ \E t \in Tabs \ {Dest}, link \in Links, twoStep \in BOOLEAN :
          last.msg = NoMsg /\ queue = <<>> /\ ArmTab(t, link, twoStep)
    \/ \E t \in Tabs \ {Dest}, type \in SentTypes(build) :
          last.msg = NoMsg /\ OtherTabSend(t, type)
    \/ HandleMessage

SpecVault == InitVault /\ [][NextVault]_vars

(* The extension runtime becomes unreachable from the page context of     *)
(* Dest (the extension was reloaded or its context invalidated).  A        *)
(* requestCreds that has no response yet gets none: its callback never     *)
(* runs, or it runs with an undefined response.                            *)
RuntimeLost(called) ==
    /\ cs.alive /\ cs.runtime
    /\ cs' = [cs EXCEPT !.runtime = FALSE]
    /\ reply' = IF called /\ cs.awaiting /\ reply[Dest] = NoReply
                THEN [reply EXCEPT ![Dest] = [creds |-> NoCreds]]
                ELSE reply
    /\ last' = NoTrigger
    /\ UNCHANGED <<input, output, build, credsByTab, failUntilByOrigin, now, tabUrl, pendingCreate,
                   queue, anti, page, clicks, failedAt, coolOpened, succeededAt, submits>>

(* One page load of the destination tab with a coordinator that can become *)
(* unreachable at any moment of the flow.                                  *)
NextUnreachable ==
    \/ \E link \in Links, twoStep \in BOOLEAN, incog \in BOOLEAN, pg \in Pages :
          ContextMenuClick(link, twoStep, incog, Dest, pg)
    \/ \E link \in Links, twoStep \in BOOLEAN, pg \in Pages :
          ContextMenuClickPro(link, twoStep, Dest, pg)
    \/ \E c \in pendingCreate : CreateCallback(c)
    \/ HandleMessage
    \/ DeliverReply
    \/ Poll
    \/ \E pg \in Pages : DomChange(pg)
    \/ ObserverTimeout
    \/ \E called \in BOOLEAN : RuntimeLost(called)

SpecUnreachable == Init /\ [][NextUnreachable]_vars

\* the flow with its timers running: a setTimeout that is due fires
SpecLive == Spec /\ WF_vars(ObserverTimeout)

-----------------------------------------------------------------------------
(* The link parsers *)

(* A string is a sequence of tokens, each a run of characters without a    *)
(* colon, or the colon itself.  ":" the colon; " " a white-space           *)
(* character; "%20" a percent-encoded space; "%" a percent sign that       *)
(* starts no escape; "https" the letters of a scheme; "//h" two slashes    *)
(* and a host name; "w" a run of letters.  Index 0 of the code's strings   *)
(* is the first token.  "//" (two slashes) and "h" (the host name of       *)
(* "//h") arise only inside the parsers.                                   *)
Tokens == {":", " ", "%20", "%", "https", "//h", "w"}

\* the longest input string, in tokens
MaxLen == 5

\* every string of at most MaxLen tokens, bare or behind the scheme "https:"
ShortStrings == UNION {[1..n -> Tokens] : n \in 0..MaxLen}

Strings == ShortStrings \cup {<<"https", ":">> \o s : s \in ShortStrings}

\* String.prototype.trim
RECURSIVE trimStart(_)
trimStart(s) == IF s # <<>> /\ Head(s) = " " THEN trimStart(Tail(s)) ELSE s

RECURSIVE trimEnd(_)
trimEnd(s) ==
    IF s # <<>> /\ s[Len(s)] = " " THEN trimEnd(SubSeq(s, 1, Len(s) - 1)) ELSE s

trim(s) == trimEnd(trimStart(s))

\* a search that starts one position too far to the right
lastIndexOfInclusive(s, from) ==
    LET f0 == IF from + 1 < 0 THEN 0 ELSE from + 1
        f == IF f0 > Len(s) - 1 THEN Len(s) - 1 ELSE f0
        hits == {i \in 0..f : s[i + 1] = ":"}
    IN  IF hits = {} THEN -1 ELSE CHOOSE i \in hits : \A j \in hits : j <= i

(* s.lastIndexOf(':', from), 0-based, -1 when there is none: a negative    *)
(* from counts as 0, a from beyond the end as the last index.              *)
lastIndexOf(s, from) ==
    LET f0 == IF from < 0 THEN 0 ELSE from
        f == IF f0 > Len(s) - 1 THEN Len(s) - 1 ELSE f0
        hits == {i \in 0..f : s[i + 1] = ":"}
    IN  IF hits = {} THEN -1 ELSE CHOOSE i \in hits : \A j \in hits : j <= i

\* s.slice(a, b) for 0 <= a, b <= s.length: empty when b <= a
slice(s, a, b) == SubSeq(s, a + 1, b)

\* /^https?$/i.test(base)
bareScheme(base) == base = <<"https">>

\* /^https?:\/\//i.test(base)
hasScheme(base) ==
    Len(base) >= 3 /\ base[1] = "https" /\ base[2] = ":" /\ base[3] = "//h"

\* 'https://' + base
withScheme(base) == <<"https", ":", "//">> \o base

\* decodeURIComponent throws a URIError on a percent sign that starts no escape
malformed(s) == \E i \in DOMAIN s : s[i] = "%"

decodeURIComponent(s) == [i \in DOMAIN s |-> IF s[i] = "%20" THEN " " ELSE s[i]]

\* try { x = decodeURIComponent(arg); } catch {}  with x holding old before
tryDecode(old, arg) == IF malformed(arg) THEN old ELSE decodeURIComponent(arg)

(* new URL(str).toString() for a str that starts with "https:": the URL    *)
(* Standard's parser for a special scheme.  Leading and trailing spaces    *)
(* are stripped; the slashes after the scheme are skipped, however many;   *)
(* the authority runs to the next slash; the host ends at the first colon  *)
(* and what follows is the port, digits only (no token holds a digit, so   *)
(* a port is empty or a failure); the host is not empty and holds no       *)
(* space, no escape of a space and no percent sign; spaces in the path are *)
(* percent-encoded.                                                        *)
InvalidURL == [kind |-> "invalid"]

RECURSIVE skipSlashes(_)
skipSlashes(r) ==
    IF r = <<>> THEN r
    ELSE IF Head(r) = "//" THEN skipSlashes(Tail(r))
    ELSE IF Head(r) = "//h" THEN <<"h">> \o Tail(r)
    ELSE r

HostTokens == {"w", "https", "h"}

URL(str) ==
    LET t == trim(str)
        r == skipSlashes(SubSeq(t, 3, Len(t)))
        slashes == {i \in DOMAIN r : r[i] \in {"//", "//h"}}
        pathAt == IF slashes = {} THEN Len(r) + 1
                  ELSE CHOOSE i \in slashes : \A j \in slashes : i <= j
        authority == SubSeq(r, 1, pathAt - 1)
        path == SubSeq(r, pathAt, Len(r))
        colons == {i \in DOMAIN authority : authority[i] = ":"}
        hostEnd == IF colons = {} THEN Len(authority) + 1
                   ELSE CHOOSE i \in colons : \A j \in colons : i <= j
        host == SubSeq(authority, 1, hostEnd - 1)
        port == SubSeq(authority, hostEnd + 1, Len(authority))
    IN  IF \/ host = <<>>
           \/ \E i \in DOMAIN host : host[i] \notin HostTokens
           \/ port # <<>>
        THEN InvalidURL
        ELSE [kind |-> "url", host |-> host,
              path |-> [i \in DOMAIN path |-> IF path[i] = " " THEN "%20" ELSE path[i]]]

\* the parsers return null
Null == [kind |-> "null"]

\* part_000 parseColonLink(raw)
parseColonLink(raw) ==
    IF raw = <<>> THEN Null
    ELSE
    LET href == trim(raw)
        lastC == lastIndexOf(href, Len(href))
        prev == lastIndexOf(href, lastC - 1)
    IN  IF lastC <= 0 \/ prev <= 0 THEN Null
        ELSE
        LET base == trim(slice(href, 0, prev))
            u == trim(slice(href, prev + 1, lastC))
            p == trim(slice(href, lastC + 1, Len(href)))
        IN  IF bareScheme(base) THEN Null
            ELSE
            LET url == URL(IF hasScheme(base) THEN base ELSE withScheme(base))
            IN  IF url = InvalidURL THEN Null
                ELSE [kind |-> "link", url |-> url,
                      username |-> tryDecode(u, u), password |-> tryDecode(p, p)]

\* background.js parseColonLinkFlexible(href): href is not trimmed
parseColonLinkFlexibleBackground(href) ==
    IF href = <<>> THEN Null
    ELSE
    LET lastC == lastIndexOf(href, Len(href))
        prev == lastIndexOf(href, lastC - 1)
    IN  IF lastC <= 0 \/ prev <= 0 THEN Null
        ELSE
        LET base == trim(slice(href, 0, prev))
            u == trim(slice(href, prev + 1, lastC))
            p == trim(slice(href, lastC + 1, Len(href)))
            url == URL(IF hasScheme(base) THEN base ELSE withScheme(base))
        IN  IF url = InvalidURL THEN Null
            ELSE [kind |-> "link", url |-> url,
                  username |-> tryDecode(u, u), password |-> tryDecode(p, p)]

\* content.js parseColonLinkFlexible(href): the segments are trimmed after decoding too
parseColonLinkFlexibleContent(href) ==
    IF href = <<>> THEN Null
    ELSE
    LET raw == trim(href)
        lastC == lastIndexOf(raw, Len(raw))
        prev == lastIndexOf(raw, lastC - 1)
    IN  IF lastC <= 0 \/ prev <= 0 THEN Null
        ELSE
        LET base == slice(raw, 0, prev)
            u == slice(raw, prev + 1, lastC)
            p == slice(raw, lastC + 1, Len(raw))
            url == URL(IF hasScheme(base) THEN base ELSE withScheme(base))
        IN  IF url = InvalidURL THEN Null
            ELSE [kind |-> "link", url |-> url,
                  username |-> trim(tryDecode(u, trim(u))),
                  password |-> trim(tryDecode(p, trim(p)))]

\* popup.js parseColonLinkFlexible(href)
parseColonLinkFlexiblePopup(href) ==
    IF href = <<>> THEN Null
    ELSE
    LET raw == trim(href)
        lastC == lastIndexOf(raw, Len(raw))
        prev == lastIndexOf(raw, lastC - 1)
    IN  IF lastC <= 0 \/ prev <= 0 THEN Null
        ELSE
        LET base == slice(raw, 0, prev)
            u == slice(raw, prev + 1, lastC)
            p == slice(raw, lastC + 1, Len(raw))
            url == URL(IF hasScheme(base) THEN base ELSE withScheme(base))
        IN  IF url = InvalidURL THEN Null
            ELSE [kind |-> "link", url |-> url,
                  username |-> trim(tryDecode(u, trim(u))),
                  password |-> trim(tryDecode(p, trim(p)))]

(* The parsers as functions of their argument: every string of at most     *)
(* MaxLen tokens is handed to the parser of the service worker (part_000)  *)
(* or to the three copies of the flexible parser (background.js,           *)
(* content.js, popup.js); or it is the address of a page, which the        *)
(* content script tries to salvage.                                        *)
InitParse ==
    /\ build \in Builds
    /\ credsByTab = [t \in Tabs |-> NoCreds]
    /\ failUntilByOrigin = [o \in Origins |-> 0]
    /\ now = 0
    /\ tabUrl = [t \in Tabs |-> Unused]
    /\ pendingCreate = {}
    /\ queue = <<>>
    /\ reply = [t \in Tabs |-> NoReply]
    /\ cs = NoContext
    /\ anti = AntiInit
    /\ page = BlankPage
    /\ clicks = 0
    /\ last = NoTrigger
    /\ failedAt = [o \in Origins |-> -1]
    /\ coolOpened = {}
    /\ succeededAt = 0
    /\ submits = 0
    /\ input \in Strings
    /\ output = NoOutput

\* part_000 contextMenus.onClicked: parseColonLink(raw)
ParseLink ==
    /\ build = "part_000"
    /\ output = NoOutput
    /\ output' = [kind |-> "parsed",
                  results |-> [n \in {"parseColonLink"} |-> parseColonLink(input)]]
    /\ UNCHANGED <<input, build, credsByTab, failUntilByOrigin, now, tabUrl,
                   pendingCreate, queue, reply, cs, anti, page, clicks, last,
                   failedAt, coolOpened, succeededAt, submits>>

\* the three copies of parseColonLinkFlexible on the same string
ParseFlexible ==
    /\ build = "pro"
    /\ output = NoOutput
    /\ output' = [kind |-> "parsed",
                  results |-> [n \in {"background", "content", "popup"} |->
                      CASE n = "background" -> parseColonLinkFlexibleBackground(input)
                        [] n = "content" -> parseColonLinkFlexibleContent(input)
                        [] n = "popup" -> parseColonLinkFlexiblePopup(input)]]
    /\ UNCHANGED <<input, build, credsByTab, failUntilByOrigin, now, tabUrl,
                   pendingCreate, queue, reply, cs, anti, page, clicks, last,
                   failedAt, coolOpened, succeededAt, submits>>

(* content.js salvage() on a page whose address is input: a parsed address *)
(* is sent to the coordinator as openArmedTab.                             *)
Salvage ==
    /\ build = "pro"
    /\ output = NoOutput
    /\ LET parsed == parseColonLinkFlexibleContent(input)
       IN  output' = [kind |-> "salvage",
                      sent |-> IF parsed = Null THEN <<>>
                               ELSE <<[type |-> "openArmedTab", url |-> parsed.url,
                                       u |-> parsed.username, p |-> parsed.password]>>]
    /\ UNCHANGED <<input, build, credsByTab, failUntilByOrigin, now, tabUrl,
                   pendingCreate, queue, reply, cs, anti, page, clicks, last,
                   failedAt, coolOpened, succeededAt, submits>>

NextParse ==
    \/ ParseLink
    \/ ParseFlexible
    \/ Salvage

SpecParse == InitParse /\ [][NextParse]_vars

-----------------------------------------------------------------------------
(* The field scorer as a function of a root *)

\* further input elements: a text field without hints and outside any form,
\* two text fields of form 1 with a name / a placeholder of USER_TERMS, and
\* the named text field in form 2
PlainEl ==
    [type |-> "text", nameIdUser |-> FALSE, placeholderUser |-> FALSE, ariaUser |-> FALSE,
     nameIdPass |-> FALSE, placeholderPass |-> FALSE, ariaPass |-> FALSE,
     ac |-> "", form |-> 0]
NameEl ==
    [type |-> "text", nameIdUser |-> TRUE, placeholderUser |-> FALSE, ariaUser |-> FALSE,
     nameIdPass |-> FALSE, placeholderPass |-> FALSE, ariaPass |-> FALSE,
     ac |-> "", form |-> 1]
HintEl ==
    [type |-> "text", nameIdUser |-> FALSE, placeholderUser |-> TRUE, ariaUser |-> FALSE,
     nameIdPass |-> FALSE, placeholderPass |-> FALSE, ariaPass |-> FALSE,
     ac |-> "", form |-> 1]

OtherNameEl == [NameEl EXCEPT !.form = 2]

Elements == {UserEl, PassEl, EmailEl, PlainEl, NameEl, HintEl, OtherNameEl}

\* the most inputs of a root handed to findBestInputs
MaxInputs == 3

\* root.querySelectorAll('input'), in document order
InputLists == UNION {[1..n -> Elements] : n \in 0..MaxInputs}

InitScore ==
    /\ build \in Builds
    /\ credsByTab = [t \in Tabs |-> NoCreds]
    /\ failUntilByOrigin = [o \in Origins |-> 0]
    /\ now = 0
    /\ tabUrl = [t \in Tabs |-> Unused]
    /\ pendingCreate = {}
    /\ queue = <<>>
    /\ reply = [t \in Tabs |-> NoReply]
    /\ cs = NoContext
    /\ anti = AntiInit
    /\ page = BlankPage
    /\ clicks = 0
    /\ last = NoTrigger
    /\ failedAt = [o \in Origins |-> -1]
    /\ coolOpened = {}
    /\ succeededAt = 0
    /\ submits = 0
    /\ input \in InputLists
    /\ output = NoOutput

\* findBestInputs(root) of the installed content script, called n-th time on the root
FindBest ==
    /\ output.kind \in {"none", "best"}
    /\ output.kind = "best" => output.call < 2
    /\ LET root == [inputs |-> input, submit |-> FALSE]
           fb == IF build = "part_000" THEN findBestInputs(root)
                 ELSE findBestInputsPro(root)
       IN  output' = [kind |-> "best", userBest |-> fb.userBest, passBest |-> fb.passBest,
                      call |-> IF output.kind = "best" THEN output.call + 1 ELSE 1,
                      before |-> output]
    /\ UNCHANGED <<input, build, credsByTab, failUntilByOrigin, now, tabUrl,
                   pendingCreate, queue, reply, cs, anti, page, clicks, last,
                   failedAt, coolOpened, succeededAt, submits>>

NextScore == FindBest

SpecScore == InitScore /\ [][NextScore]_vars

-----------------------------------------------------------------------------
(* One trigger as a function of the page *)

\* the most roots of a page and the most inputs of one of its roots
MaxRoots == 2
MaxRootInputs == 2

FillElements == {UserEl, PassEl}

\* allRoots(): the main document first, then the shadow roots and the frames;
\* every root has a submit control near its fields
FillRoots ==
    [inputs : UNION {[1..n -> FillElements] : n \in 0..MaxRootInputs}, submit : {TRUE}]

FillPages ==
    [roots : UNION {[1..n -> FillRoots] : n \in 1..MaxRoots}, failText : BOOLEAN]

\* the page context after the requestCreds callback has started the flow of entry e
StartedContext(b, e) ==
    [FreshContext(1) EXCEPT !.awaiting = FALSE, !.started = TRUE,
                            !.armed = (b = "part_000"),
                            !.u = e.u, !.p = e.p, !.twoStep = e.twoStep,
                            !.stage = e.stage,
                            !.attempts = 0, !.interval = TRUE, !.observer = TRUE,
                            !.observerTimer = (b = "part_000")]

(* The destination tab was armed from a link, its content script got the   *)
(* entry and started the flow; the page it scans is any page of at most    *)
(* MaxRoots roots.                                                         *)
InitTrigger ==
    /\ build \in Builds
    /\ \E link \in Links, twoStep \in BOOLEAN :
          /\ credsByTab = [t \in Tabs |-> IF t = Dest THEN Entry(link, twoStep) ELSE NoCreds]
          /\ tabUrl = [t \in Tabs |-> IF t = Dest THEN link.url ELSE Unused]
          /\ reply = [t \in Tabs |-> IF t = Dest THEN [creds |-> Entry(link, twoStep)]
                                     ELSE NoReply]
          /\ cs = StartedContext(build, Entry(link, twoStep))
    /\ page \in FillPages
    /\ failUntilByOrigin = [o \in Origins |-> 0]
    /\ now = 0
    /\ pendingCreate = {}
    /\ queue = <<>>
    /\ anti = AntiInit
    /\ clicks = 0
    /\ last = NoTrigger
    /\ failedAt = [o \in Origins |-> -1]
    /\ coolOpened = {}
    /\ succeededAt = 0
    /\ submits = 0
    /\ input = NoInput
    /\ output = NoOutput

\* the first trigger of the flow: a poll tick, or a mutation of the page
NextTrigger ==
    \/ last.kind = "none" /\ Poll
    \/ last.kind = "none" /\ DomChange(page)

SpecTrigger == InitTrigger /\ [][NextTrigger]_vars

-----------------------------------------------------------------------------
(* The claims *)

Range(seq) == {seq[i] : i \in DOMAIN seq}

\* an element is password-capable when its password score is positive
PasswordCapable(el) == passScoreOf(el) > 0

\* C1: in one page context the automatic submit clicks never exceed
\* MAX_SUBMITS_PER_TAB, whatever poll ticks and mutation notifications fire.
C1_SubmitCap == clicks <= MAX_SUBMITS_PER_TAB

\* C2: once the page context is Disarmed, no later poll tick or mutation
\* notification writes a field or clicks a submit control.
C2_NoActionOnceDisarmed ==
    (last.kind # "none" /\ last.doneBefore) => (last.writes = <<>> /\ last.clicks = 0)

\* C3: on every trigger of an armed page context (part_000, either mode, either
\* stage) a positive failure detection pre-empts the fill: no write, no click,
\* the context becomes Disarmed, clearCreds and markOriginFailure are sent.
C3_DetectionPreempts ==
    (build = "part_000" /\ last.kind # "none" /\ last.liveBefore /\ last.detected)
    => /\ last.writes = <<>>
       /\ last.clicks = 0
       /\ Disarmed(cs)
       /\ last.sent = <<"clearCreds", "markOriginFailure">>

C5_CooldownWindow ==
    \A o \in Origins :
        cooldownActive(failUntilByOrigin, o, now)
        <=> (failedAt[o] >= 0 /\ now < failedAt[o] + SUBMIT_COOLDOWN_MS)

\* C5 witness: a failure marked after time had passed, and the clock one
\* millisecond before the end of its window, the cooldown still active
C5_Witness ==
    \E o \in Origins :
        /\ failedAt[o] > 0
        /\ now = failedAt[o] + SUBMIT_COOLDOWN_MS - 1
        /\ cooldownActive(failUntilByOrigin, o, now)

\* C6: every automatic submit click happens with the anti-loop gate open
\* (autoSubmit enabled, now >= coolDownUntil, fewer than MAX_SUBMITS_PER_TAB
\* submissions so far) and is recorded: submittedCount is incremented and
\* lastUrlAfterSubmit is the current address.
C6_GateOnEveryClick ==
    [][clicks' > clicks =>
          /\ clicks < MAX_SUBMITS_PER_TAB
          /\ build = "part_000" =>
                /\ canAutoSubmit(anti, now)
                /\ anti'.submittedCount = anti.submittedCount + 1
                /\ anti'.lastUrlAfterSubmit = tabUrl[Dest]]_vars

\* C7: two-step flow (part_000), stage init, on a page with only a username
\* field: the poll fills the username, submits, advances the stage to
\* userSubmitted and sends updateStage.
C7_TwoStepUsernameStep ==
    [][(/\ build = "part_000"
        /\ last'.kind = "poll" /\ cs'.attempts = cs.attempts + 1
        /\ Live(cs) /\ cs.twoStep /\ cs.stage = "init"
        /\ page.roots = UserOnlyPage /\ ~page.failText)
       => /\ last'.writes = <<writeOf(1, 1, "u")>>
          /\ last'.clicks = 1
          /\ cs'.stage = "userSubmitted"
          /\ last'.sent = <<"updateStage">>]_vars

\* C8: single-step mode (part_000): a poll disarms and sends clearCreds only
\* if it filled a password-capable field; on a page with only a username field
\* it fills the username, clicks nothing, stays armed and keeps the entry.
C8_SingleStepDisarm ==
    [][(/\ build = "part_000"
        /\ last'.kind = "poll" /\ cs'.attempts = cs.attempts + 1
        /\ Live(cs) /\ ~cs.twoStep
        /\ ~pageShowsLikelyFailure(page, anti, tabUrl[Dest]))
       => /\ (~cs'.armed \/ "clearCreds" \in Range(last'.sent))
                => \E i \in DOMAIN last'.writes :
                      /\ last'.writes[i].role = "p"
                      /\ PasswordCapable(
                            page.roots[last'.writes[i].root].inputs[last'.writes[i].idx])
          /\ page.roots = UserOnlyPage
                => /\ last'.writes = <<writeOf(1, 1, "u")>>
                   /\ last'.clicks = 0
                   /\ cs'.armed
                   /\ last'.sent = <<>>]_vars

\* C9: from every armed state and for every page content, a mutation
\* notification leaves the same armed flag and stage and sends the same
\* messages as a poll tick would.
C9_TriggersAgree ==
    (cs.alive /\ Live(cs) /\ cs.observer)
    => \A pg \in Pages :
          LET m == mutationOutcome(build, cs, anti, pg, tabUrl[Dest], now)
              q == pollOutcome(build, cs, anti, pg, tabUrl[Dest], now)
          IN  /\ m.cs.armed = q.cs.armed
              /\ m.cs.stage = q.cs.stage
              /\ m.sent = q.sent

\* C10: when the poll count reaches its ceiling without success or detected
\* failure, the page context is Disarmed: no trigger acts afterwards, and the
\* exhausting tick sends no markOriginFailure.
C10_ExhaustionDisarms ==
    [][/\ (cs.exhausted /\ cs.alive /\ last'.kind # "none")
             => (last'.writes = <<>> /\ last'.clicks = 0)
       /\ (cs'.exhausted /\ ~cs.exhausted)
             => "markOriginFailure" \notin Range(last'.sent)]_vars

\* C11: vault isolation: a requestCreds, updateStage or clearCreds from
\* destination A leaves the entry and the reply of every other destination
\* as they were, and the reply to A's requestCreds is A's own entry.
C11_VaultIsolation ==
    [][last'.msg.type \in {"requestCreds", "updateStage", "clearCreds"} =>
          LET A == last'.msg.tab
          IN  /\ \A B \in Tabs \ {A} :
                    credsByTab'[B] = credsByTab[B] /\ reply'[B] = reply[B]
              /\ last'.msg.type = "requestCreds" =>
                    reply'[A] = [creds |-> credsByTab[A]]]_vars

\* C11 witness: A's clearCreds deleted A's entry while another destination,
\* armed with other credentials, still holds its own
C11_Witness ==
    /\ last.msg.type = "clearCreds"
    /\ last.msg.old # NoCreds
    /\ credsByTab[last.msg.tab] = NoCreds
    /\ \E B \in Tabs \ {last.msg.tab} :
          credsByTab[B] # NoCreds /\ credsByTab[B].u # last.msg.old.u

\* C12: once the close of a destination has been processed, the vault holds
\* no entry for it, however the close interleaves with arming, updateStage
\* and clearCreds.
C12_ClosedHasNoEntry ==
    \A t \in Tabs : tabUrl[t] = Closed => credsByTab[t] = NoCreds

C14_ArmReplaces ==
    [][last'.msg.type = "arm" =>
          /\ credsByTab' = [credsByTab EXCEPT ![last'.msg.tab] = last'.msg.payload]
          /\ last'.msg.payload.stage = "init"
          /\ credsByTab'[last'.msg.tab] \in VaultEntries \ {NoCreds}]_vars

\* C14 witness: an entry at stage userSubmitted was replaced by an arming
\* with other credentials and the other mode
C14_Witness ==
    /\ last.msg.type = "arm"
    /\ last.msg.old # NoCreds
    /\ last.msg.old.stage = "userSubmitted"
    /\ last.msg.old.u # last.msg.payload.u
    /\ last.msg.old.twoStep # last.msg.payload.twoStep
    /\ credsByTab[last.msg.tab] = last.msg.payload

\* C15: updateStage for a destination without an entry (never armed, or
\* cleared) leaves the whole vault unchanged.
C15_UpdateStageAbsent ==
    [][(last'.msg.type = "updateStage" /\ last'.msg.old = NoCreds)
          => credsByTab' = credsByTab]_vars

\* C15 witness: an updateStage of a destination without an entry was handled,
\* the destination still has none, and another destination holds its entry
C15_Witness ==
    /\ last.msg.type = "updateStage"
    /\ last.msg.old = NoCreds
    /\ credsByTab[last.msg.tab] = NoCreds
    /\ \E B \in Tabs \ {last.msg.tab} : credsByTab[B] # NoCreds

\* the coordinator requests of the page context of load n still in flight
InFlight(n) == {i \in DOMAIN queue : queue[i].tab = Dest /\ queue[i].load = n}

\* C16: one page context never has two coordinator requests in flight: it
\* sends the next only after the previous was handled and answered.
C16_OneRequestInFlight == \A n \in 1..(MaxLoads + 1) : Cardinality(InFlight(n)) <= 1

\* C17: the single requestCreds of the page an arming request opened (outside
\* cooldown) is answered with the armed credentials, however the creation
\* callback and that request interleave.
C17_ArmedBeforeServed ==
    (cs.load = 1 /\ Dest \notin coolOpened /\ reply[Dest] # NoReply)
    => reply[Dest].creds # NoCreds

\* C18: the mutation observer of a flow lives for a bounded window after
\* arming (15 s single-step, 20 s two-step): once more poll ticks have run
\* than fit in the window, the observer is disconnected.
C18_ObserverWindow ==
    (cs.alive /\ cs.started /\ cs.attempts > ObserverTicks(cs)) => ~cs.observer

\* the attempt ceiling of the running mode
AttemptCeiling(b, c) ==
    IF b = "part_000"
    THEN (IF c.twoStep THEN TwoStepMax ELSE NormalMax)
    ELSE (IF c.twoStep THEN ProTwoStepMax ELSE ProNormalMax)

\* C19: every polling loop and every observer ends: the interval is cleared
\* by the tick that reaches the attempt ceiling at the latest, and an observer
\* whose loop has ended is eventually disconnected.
C19_LoopsTerminate ==
    /\ [](cs.started =>
            /\ cs.attempts <= AttemptCeiling(build, cs)
            /\ cs.attempts = AttemptCeiling(build, cs) => ~cs.interval)
    /\ (cs.observer /\ ~cs.interval) ~> ~cs.observer

\* C20: when the page context is discarded (navigation or close), its
\* interval, its observer and its pending timer are torn down, in whatever
\* state the flow is; a trigger only ever runs in the page context that is
\* alive, and leaves that context in place.
C20_TornDownOnUnload ==
    [][/\ last'.unload # NoUnload =>
             /\ last'.unload.before = cs
             /\ ~last'.unload.after.alive
             /\ ~last'.unload.after.interval
             /\ ~last'.unload.after.observer
             /\ ~last'.unload.after.observerTimer
             /\ cs' # cs /\ ~cs'.interval /\ ~cs'.observer /\ ~cs'.observerTimer
       /\ last'.kind # "none" =>
             cs.alive /\ cs'.alive /\ cs'.load = cs.load]_vars

\* C20 witness: a page context whose interval was running and whose observer
\* was connected has been discarded
C20_Witness ==
    /\ last.unload # NoUnload
    /\ last.unload.before.started
    /\ last.unload.before.interval
    /\ last.unload.before.observer
    /\ ~last.unload.after.interval /\ ~last.unload.after.observer

(* C21: with the coordinator unreachable, a page context whose             *)
(* requestCreds got no credentials (no reply, or an empty one) never       *)
(* starts a flow, and a trigger whose sends fail runs its callback to the  *)
(* end: the page-local flow state after it is the one the callback reaches *)
(* when the sends succeed, and nothing is queued at the coordinator.       *)
C21_UnreachableDegrades ==
    [][(cs.alive /\ ~cs.runtime) =>
          /\ (/\ ~cs.started
              /\ reply[Dest] = NoReply \/ reply[Dest].creds = NoCreds
              /\ cs'.load = cs.load)
             => ~cs'.started
          /\ last'.kind = "poll" =>
                /\ cs' = pollOutcome(build, cs, anti, page, tabUrl[Dest], now).cs
                /\ queue' = queue
          /\ last'.kind = "mutation" =>
                /\ cs' = mutationOutcome(build, cs, anti, page', tabUrl[Dest], now).cs
                /\ queue' = queue
      ]_vars

\* a trigger has tried to send with the runtime unreachable and ended the flow
C21_Witness ==
    /\ cs.alive /\ ~cs.runtime
    /\ last.kind = "poll" /\ last.sent # <<>>
    /\ Disarmed(cs)

\* a requestCreds callback has run with an undefined response
C21_WitnessIdle ==
    /\ cs.alive /\ ~cs.runtime /\ ~cs.awaiting /\ ~cs.started
    /\ reply[Dest] = [creds |-> NoCreds]
    /\ credsByTab[Dest] # NoCreds

\* the positions after the first at which s holds a colon
NonLeadingColons(s) == {i \in 2..Len(s) : s[i] = ":"}

(* C22: a string with fewer than two colons at non-leading positions (no   *)
(* colon, one colon, or the second-to-last colon at index 0) is not a link *)
(* for any parser: parseColonLink and the three copies of                  *)
(* parseColonLinkFlexible return null.                                     *)
C22_TooFewColons ==
    (output.kind = "parsed" /\ Cardinality(NonLeadingColons(input)) < 2)
    => \A n \in DOMAIN output.results : output.results[n] = Null

\* a string whose second-to-last colon is at index 0 has been parsed
C22_Witness ==
    /\ output.kind = "parsed"
    /\ Len(input) = MaxLen /\ input[1] = ":" /\ input[2] = "w"
    /\ Cardinality(NonLeadingColons(input)) = 1
    /\ \A n \in DOMAIN output.results : output.results[n] = Null

\* the text before the second-to-last colon of s, <<>> when s has no such colon
BaseSegment(s) ==
    LET t == trim(s)
        lastC == lastIndexOf(t, Len(t))
        prev == lastIndexOf(t, lastC - 1)
    IN  IF lastC <= 0 \/ prev <= 0 THEN <<>> ELSE trim(slice(t, 0, prev))

(* C23: no parser accepts a string whose base segment is the bare scheme   *)
(* token ("https://h:w", an address with a port, has the base "https"),    *)
(* and the salvage of an address of that shape opens no armed tab.         *)
C23_BareSchemeRejected ==
    bareScheme(BaseSegment(input)) =>
        /\ output.kind = "parsed" =>
              \A n \in DOMAIN output.results : output.results[n] = Null
        /\ output.kind = "salvage" => output.sent = <<>>

\* all the colons of s
Colons(s) == {i \in DOMAIN s : s[i] = ":"}

(* C24: parseColonLinkFlexible (background.js, content.js, popup.js)       *)
(* returns null for every string that does not hold exactly two colons.    *)
C24_ExactlyTwoColons ==
    (output.kind = "parsed" /\ build = "pro" /\ Cardinality(Colons(input)) # 2)
    => \A n \in DOMAIN output.results : output.results[n] = Null

(* C25: on every string the copies of parseColonLinkFlexible in popup.js,  *)
(* content.js and background.js return null together or return the same    *)
(* url, username and password.                                             *)
C25_ParsersAgree ==
    (output.kind = "parsed" /\ build = "pro")
    => \A n, m \in DOMAIN output.results : output.results[n] = output.results[m]

\* the first index of the highest score, 0 for an empty list
FirstMax(scores) ==
    IF Len(scores) = 0 THEN 0
    ELSE CHOOSE i \in DOMAIN scores :
            /\ \A j \in DOMAIN scores : scores[j] <= scores[i]
            /\ \A j \in 1..(i - 1) : scores[j] < scores[i]

\* the scores of the inputs for each role, by the scorer of script set b
UserScores(b, inputs) ==
    [i \in DOMAIN inputs |->
        IF b = "part_000" THEN userScoreOf(inputs[i]) ELSE scoreUsernameInput(inputs[i])]
PassScores(b, inputs) ==
    [i \in DOMAIN inputs |->
        IF b = "part_000" THEN passScoreOf(inputs[i]) ELSE scorePasswordInput(inputs[i])]

(* The username choice after the re-search in the password field's form:   *)
(* when the two top elements belong to different forms, the best text /    *)
(* email / untyped input of the password field's form if its score is at   *)
(* least max(3, top score - 2); otherwise the top username element.        *)
ReSearched(b, inputs) ==
    LET us == UserScores(b, inputs)
        iu == FirstMax(us)
        ip == FirstMax(PassScores(b, inputs))
        cands == [i \in DOMAIN inputs |->
                    IF inputs[i].form = inputs[ip].form
                       /\ inputs[i].type \in {"email", "text", ""}
                    THEN us[i] ELSE -1]
        best == FirstMax(cands)
    IN  IF /\ iu # 0 /\ ip # 0
           /\ inputs[iu].form # 0 /\ inputs[ip].form # 0
           /\ inputs[iu].form # inputs[ip].form
           /\ best # 0 /\ cands[best] >= Max(3, us[iu] - 2)
        THEN best ELSE iu

(* C27 (as stated): for each role findBestInputs returns the first element *)
(* of the strictly highest score of the root's input list.                 *)
C27_HighestPerRole ==
    output.kind = "best" =>
        /\ output.passBest = FirstMax(PassScores(build, input))
        /\ output.userBest = FirstMax(UserScores(build, input))

(* C27 (amended): the password choice is the first element of the highest  *)
(* password score; the username choice is the first element of the highest *)
(* username score, except where content.js replaces it by the candidate of *)
(* the password field's form; a second call on the same root returns the   *)
(* same elements.                                                          *)
C27_HighestPerRoleOrReSearched ==
    output.kind = "best" =>
        /\ output.passBest = FirstMax(PassScores(build, input))
        /\ \/ output.userBest = FirstMax(UserScores(build, input))
           \/ build = "pro" /\ output.userBest = ReSearched(build, input)
        /\ output.call = 2 =>
              /\ output.userBest = output.before.userBest
              /\ output.passBest = output.before.passBest

\* two elements tie at the top username score and findBestInputs was called twice
C27_Witness ==
    /\ output.kind = "best" /\ output.call = 2
    /\ Len(input) = MaxInputs
    /\ \E i, j \in DOMAIN input :
          /\ i < j /\ input[i] # input[j]
          /\ UserScores(build, input)[i] = UserScores(build, input)[j]
          /\ \A k \in DOMAIN input :
                UserScores(build, input)[k] <= UserScores(build, input)[i]
          /\ output.userBest = i

(* C28: findBestInputs returns the username choice of the re-search in the *)
(* password field's form (replaced only within the tolerance, kept when    *)
(* the forms agree or one is missing) and never changes the password       *)
(* choice.                                                                 *)
C28_FormReSearch ==
    output.kind = "best" =>
        /\ output.userBest = ReSearched(build, input)
        /\ output.passBest = FirstMax(PassScores(build, input))

\* a password-capable element exists in some root of page pg
PasswordFieldOn(pg) ==
    \E i \in DOMAIN pg.roots : \E k \in DOMAIN pg.roots[i].inputs :
        PasswordCapable(pg.roots[i].inputs[k])

SameAddressSignal(pg, a, href) ==
    /\ PasswordFieldOn(pg)
    /\ a.lastUrlAfterSubmit # ""
    /\ a.lastUrlAfterSubmit = href

C29_WitnessText ==
    /\ build = "part_000" /\ last.kind = "poll" /\ last.liveBefore
    /\ page.failText /\ last.detected

\* the element a recorded write went into
WrittenElement(w) == page.roots[w.root].inputs[w.idx]

(* C30: a trigger writes the password only into a password-capable         *)
(* element, and never writes the username and then the password into the   *)
(* same element.                                                           *)
C30_PasswordOnlyIntoPasswordField ==
    last.kind \in {"poll", "mutation"} =>
        \A j \in DOMAIN last.writes :
            last.writes[j].role = "p" =>
                /\ PasswordCapable(WrittenElement(last.writes[j]))
                /\ \A i \in 1..(j - 1) :
                       ~(/\ last.writes[i].role = "u"
                         /\ last.writes[i].root = last.writes[j].root
                         /\ last.writes[i].idx = last.writes[j].idx)

\* the target address of the link that carries username u
TargetOf(u) == (CHOOSE l \in Links : l.u = u).url

(* C31: the credentials armed for a link are delivered only to a page of   *)
(* the link's origin: when the armed tab shows a page of another origin,   *)
(* its requestCreds is answered without credentials, no flow starts there  *)
(* and no field is written.                                                *)
C31_DeliveredToTargetOnly ==
    /\ (cs.alive /\ reply[Dest] # NoReply /\ reply[Dest].creds # NoCreds)
       => originOf(tabUrl[Dest]) = originOf(TargetOf(reply[Dest].creds.u))
    /\ (cs.alive /\ cs.started)
       => originOf(tabUrl[Dest]) = originOf(TargetOf(cs.u))

(* C32: for one arming of the destination the automatic submit clicks of   *)
(* all its page loads together are at most 2, the bound of the two-step    *)
(* mode, and at most 1 in a flow that runs in single-step mode.            *)
C32_TotalSubmitsBounded ==
    /\ submits <= 2
    /\ (cs.started /\ ~cs.twoStep) => submits <= 1

(* C33: when the coordinator has handled the markOriginFailure of a        *)
(* destination armed from a link with target X, the cooldown of X's origin *)
(* is active, so that the check of a new arming request for X refuses it,  *)
(* whatever address the page that detected the failure had.                *)
C33_CooldownUnderArmedOrigin ==
    (/\ build = "part_000"
     /\ last.msg.type = "markOriginFailure" /\ last.msg.tab = Dest
     /\ cs.started)
    => cooldownActive(failUntilByOrigin, originOf(TargetOf(cs.u)), now)

-----------------------------------------------------------------------------
(* One activation of a link in a page that runs content.js *)

\* href attributes in tokens: a colon-link and an ordinary link
ColonHref == <<"w", ":", "w", ":", "w">>
PlainHref == <<"https", ":", "//h">>

\* the anchors of the page: the href, and the colon-link it stands for (if any)
Anchors ==
    {[href |-> ColonHref, link |-> l] : l \in Links}
    \cup {[href |-> PlainHref, link |-> NoCreds]}

(* A user activation: the anchor, the mouse button (0 left, 1 middle),     *)
(* ctrl (e.ctrlKey || e.metaKey) and alt (e.altKey).                        *)
Activations == [anchor : Anchors, button : {0, 1}, ctrl : BOOLEAN, alt : BOOLEAN]

(* The events the browser dispatches for an activation, in order: the      *)
(* primary button gives mousedown and click, the middle button mousedown   *)
(* and auxclick.  preventDefault() in a mousedown listener does not cancel *)
(* the click or auxclick that follows.                                     *)
EventsOf(a) == <<"mousedown", IF a.button = 0 THEN "click" ELSE "auxclick">>

\* the openArmedTab message of the three listeners
openArmedTabMsg(a) ==
    [type |-> "openArmedTab", link |-> a.anchor.link, twoStep |-> a.alt]

\* the page with its anchors, the events of one activation pending
InitClick ==
    /\ build = "pro"
    /\ credsByTab = [t \in Tabs |-> NoCreds]
    /\ failUntilByOrigin = [o \in Origins |-> 0]
    /\ now = 0
    /\ tabUrl = [t \in Tabs |-> Unused]
    /\ pendingCreate = {}
    /\ queue = <<>>
    /\ reply = [t \in Tabs |-> NoReply]
    /\ cs = NoContext
    /\ anti = AntiInit
    /\ page = BlankPage
    /\ clicks = 0
    /\ last = NoTrigger
    /\ failedAt = [o \in Origins |-> -1]
    /\ coolOpened = {}
    /\ succeededAt = 0
    /\ submits = 0
    /\ input \in Activations
    /\ output = [kind |-> "events", pending |-> EventsOf(input), sent |-> <<>>]

\* the next pending event is dispatched to its listener, which sends or returns
Dispatch(name, sends) ==
    /\ output.kind = "events"
    /\ output.pending # <<>>
    /\ Head(output.pending) = name
    /\ output' = [output EXCEPT
                     !.pending = Tail(@),
                     !.sent = IF sends THEN Append(@, openArmedTabMsg(input)) ELSE @]
    /\ UNCHANGED <<input, build, credsByTab, failUntilByOrigin, now, tabUrl,
                   pendingCreate, queue, reply, cs, anti, page, clicks, last,
                   failedAt, coolOpened, succeededAt, submits>>

\* content.js 'mousedown' listener
MouseDown ==
    Dispatch("mousedown",
             input.ctrl /\ parseColonLinkFlexibleContent(input.anchor.href) # Null)

\* content.js 'click' listener
Click ==
    Dispatch("click", parseColonLinkFlexibleContent(input.anchor.href) # Null)

\* content.js 'auxclick' listener
AuxClick ==
    Dispatch("auxclick",
             input.button = 1 /\ parseColonLinkFlexibleContent(input.anchor.href) # Null)

\* the tabs the browser has opened
Opened == {t \in Tabs : tabUrl[t] # Unused}

\* the destinations that are armed or whose creation callback is pending
ArmedOrPending ==
    {t \in Tabs : credsByTab[t] # NoCreds} \cup {c.tab : c \in pendingCreate}

\* the coordinator handles the oldest openArmedTab message not handled yet
HandleOpenArmedTab(t) ==
    /\ output.kind = "events"
    /\ Cardinality(Opened) < Len(output.sent)
    /\ LET m == output.sent[Cardinality(Opened) + 1]
       IN  OpenArmedTab(m.link, m.twoStep, t, BlankPage)

NextClick ==
    \/ MouseDown
    \/ Click
    \/ AuxClick
    \/ \E t \in Tabs \ {Dest} : HandleOpenArmedTab(t)
    \/ \E c \in pendingCreate : CreateCallback(c)

SpecClick == InitClick /\ [][NextClick]_vars

(* C34: when the events of one activation of a colon-link have been        *)
(* dispatched, exactly one openArmedTab message was sent, whatever the      *)
(* button and the modifier keys; and every handled openArmedTab has opened  *)
(* one tab with one vault entry (armed or to be armed by its callback).    *)
C34_OneArmedTabPerActivation ==
    (/\ output.kind = "events"
     /\ output.pending = <<>>
     /\ input.anchor.link # NoCreds)
    => /\ Len(output.sent) = 1
       /\ Cardinality(Opened) <= Len(output.sent)
       /\ ArmedOrPending = Opened

====
